---- MODULE Spec2Model ----
(***************************************************************************)
(* The cross-thread callback-suspension context of measurement-kit-node:   *)
(* worker threads of the measurement engine suspend closures, the libuv    *)
(* loop thread resumes them, and the context is torn down through the loop.*)
(*                                                                         *)
(* Two generations of the same mechanism are modelled side by side:        *)
(*   impl = "Context"  include/private/node/async.hpp (the free functions  *)
(*                     make, suspend, start_delete, mkuv_resume,           *)
(*                     mkuv_delete; uv_async_ctx.hpp has the same steps as  *)
(*                     static methods of UvAsyncCtx)                       *)
(*   impl = "Runner"   src/addon.cc (Runner::RunOrStart, SuspendOn, Resume,*)
(*                     mkuv_resume, mkuv_destroy)                          *)
(* libuv is modelled by what the sources rely on: uv_async_send sets a     *)
(* pending flag that the loop turns into ONE call of the async callback    *)
(* (coalescing), uv_close stops the handle and has its close callback      *)
(* called by a later loop iteration, and uv_run returns only when no       *)
(* handle is active or closing.                                            *)
(***************************************************************************)
EXTENDS Integers, Sequences, FiniteSets, TLC

\* Bounds of the model.
NumWorkers == 2   \* engine threads that invoke callbacks
MaxSubmit == 2    \* suspend calls made with a callback closure, in total

Loop == 0                       \* the libuv I/O loop thread
Workers == 1..NumWorkers        \* the engine's background threads
Threads == Workers \cup {Loop}
Impls == {"Context", "Runner"}
Holders == {"caller", "engine"} \* external copies of the shared pointer

VARIABLES
    impl,         \* which generation of the code this behaviour runs
    handle,       \* uv_async_t async: "uninit", "active", "closing", "closed"
    pending,      \* libuv's pending flag of the async handle
    mutexOwner,   \* std::recursive_mutex mutex: owning thread (when depth > 0)
    mutexDepth,   \*   and its recursion depth
    suspended,    \* std::list<std::function<void()>> suspended
    functions,    \* the local list `functions` of the resume in progress
    fnIdx,        \* index in `functions` of the next closure to call
    pcL,          \* position of the loop thread
    pc,           \* position of each thread inside suspend / SuspendOn
    cur,          \* the closure each thread is suspending
    selfref,      \* Context::self / Runner::selfref is non-null
    ext,          \* external holders of a shared pointer to the object
    freed,        \* the object has been deallocated
    submitted,    \* per thread: number of closures it has passed to suspend
    destroyFired, \* the engine's on_destroy hook has fired
    enq,          \* history: closures in the order of their push_back
    enqAt,        \* history: per push, the resumes so far and whether one ran
    done,         \* history: closures called, by which thread, in which resume
    resumeCount,  \* history: number of swaps performed by resume
    finished,     \* history: the close callback has run
    loopExited    \* uv_run has returned

vars == <<impl, handle, pending, mutexOwner, mutexDepth, suspended, functions,
          fnIdx, pcL, pc, cur, selfref, ext, freed, submitted, destroyFired,
          enq, enqAt, done, resumeCount, finished, loopExited>>

Closure(t, n, k) == [thr |-> t, seq |-> n, kind |-> k]
NoClosure == Closure(Loop, 0, "none")

RECURSIVE SumOver(_, _)
SumOver(f, S) ==
    IF S = {} THEN 0
    ELSE LET x == CHOOSE y \in S : TRUE IN f[x] + SumOver(f, S \ {x})

\* A closure holds a copy of the shared pointer when its capture list names
\* it: every closure of Runner::RunOrStart captures `self`, and so does the
\* closure of start_delete (`[ctx]`); the callbacks suspended on a Context
\* capture only their arguments.
Captures(c) == impl = "Runner" \/ c.kind = "close"

CountRefs(q) == Cardinality({i \in 1..Len(q) : Captures(q[i])})

\* The use count of the shared pointer.
Refs ==
    (IF selfref THEN 1 ELSE 0)
    + Cardinality(ext)
    + CountRefs(suspended)
    + CountRefs(functions)
    + (IF pcL \in {"resume", "run"} THEN 1 ELSE 0)

\* shared_ptr semantics: the object is deleted when the last copy goes away.
Reclaim == freed' = (freed \/ Refs' = 0)

Init ==
    /\ impl \in Impls
    /\ handle = "uninit"
    /\ pending = FALSE
    /\ mutexOwner = Loop
    /\ mutexDepth = 0
    /\ suspended = <<>>
    /\ functions = <<>>
    /\ fnIdx = 1
    /\ pcL = "init"
    /\ pc = [t \in Threads |-> "idle"]
    /\ cur = [t \in Threads |-> NoClosure]
    /\ selfref = FALSE
    /\ ext = IF impl = "Runner" THEN {"caller"} ELSE {}
    /\ freed = FALSE
    /\ submitted = [t \in Threads |-> 0]
    /\ destroyFired = FALSE
    /\ enq = <<>>
    /\ enqAt = <<>>
    /\ done = <<>>
    /\ resumeCount = 0
    /\ finished = FALSE
    /\ loopExited = FALSE

----------------------------------------------------------------------------
\* libuv primitives, as the sources use them.

\* uv_async_init(uv_default_loop(), &async, mkuv_resume): 0 registers the
\* handle with the loop, anything else leaves it unregistered.
uv_async_init(rc) == handle' = IF rc = 0 THEN "active" ELSE "uninit"

\* Mutant of uv_async_send: the wake is never signalled.
uv_async_send_lost == pending' = pending

\* uv_async_send(&async): marks the handle pending; sends before the loop
\* looks at the handle coalesce into one wake.
uv_async_send == pending' = TRUE

\* Mutant of uv_close: the handle is gone at once and no close callback
\* is ever called.
uv_close_now == handle' = "closed"

\* uv_close((uv_handle_t *)&async, cb): the handle stops being active and
\* the loop calls cb in a later iteration.
uv_close == handle' = "closing"

\* Mutant of CanLock: the mutex excludes nobody.
CanLock_any(t) == TRUE

\* std::unique_lock<std::recursive_mutex> _{mutex}
CanLock(t) == mutexDepth = 0 \/ mutexOwner = t
Lock(t) == /\ CanLock(t)
           /\ mutexOwner' = t
           /\ mutexDepth' = mutexDepth + 1
Unlock(t) == /\ mutexDepth' = mutexDepth - 1
             /\ mutexOwner' = IF mutexDepth = 1 THEN Loop ELSE t

\* Mutant of push_back: the closure is put at the front of the list.
push_front(t) ==
    /\ suspended' = <<cur[t]>> \o suspended
    /\ enq' = Append(enq, cur[t])
    /\ enqAt' = Append(enqAt, [at |-> resumeCount, running |-> pcL = "run"])

\* suspended.push_back(std::move(func))
push_back(t) ==
    /\ suspended' = Append(suspended, cur[t])
    /\ enq' = Append(enq, cur[t])
    /\ enqAt' = Append(enqAt, [at |-> resumeCount, running |-> pcL = "run"])

----------------------------------------------------------------------------
\* Construction.

\* Mutant of make: the self reference is not set.
make_noself ==
    /\ impl = "Context"
    /\ pcL = "init"
    /\ selfref' = FALSE
    /\ \E rc \in {0, 1} :
          /\ uv_async_init(rc)
          /\ ext' = IF rc = 0 THEN {"caller", "engine"} ELSE {}
    /\ pcL' = "idle"
    /\ UNCHANGED <<impl, pending, mutexOwner, mutexDepth, suspended, functions,
                   fnIdx, pc, cur, submitted, destroyFired, enq, enqAt, done,
                   resumeCount, finished, loopExited>>
    /\ Reclaim

\* make<>(): allocate, set the self reference, register the handle; throws
\* when uv_async_init fails (the local `ctx` is then dropped, `self` is not).
\* On success the caller copies the pointer into the callbacks it registers
\* on the test, which the engine owns.
make ==
    /\ impl = "Context"
    /\ pcL = "init"
    /\ selfref' = TRUE
    /\ \E rc \in {0, 1} :
          /\ uv_async_init(rc)
          /\ ext' = IF rc = 0 THEN {"caller", "engine"} ELSE {}
    /\ pcL' = "idle"
    /\ UNCHANGED <<impl, pending, mutexOwner, mutexDepth, suspended, functions,
                   fnIdx, pc, cur, submitted, destroyFired, enq, enqAt, done,
                   resumeCount, finished, loopExited>>
    /\ Reclaim

\* Runner::RunOrStart, up to and including nettest->start(): takes the mutex,
\* refuses a second self reference, sets it, registers the handle, registers
\* the callbacks (each capturing `self`) and starts the test.  A throw
\* unwinds: the mutex is released and the wrapper's local `runner` dropped.
RunOrStart_enter ==
    /\ impl = "Runner"
    /\ pcL = "init"
    /\ CanLock(Loop)
    /\ ~selfref
    /\ selfref' = TRUE
    /\ \E rc \in {0, 1} :
          /\ uv_async_init(rc)
          /\ IF rc = 0
             THEN /\ Lock(Loop)
                  /\ ext' = ext \cup {"engine"}
                  /\ pcL' = "RunOrStart"
             ELSE /\ UNCHANGED <<mutexOwner, mutexDepth>>
                  /\ ext' = ext \ {"caller"}
                  /\ pcL' = "idle"
    /\ UNCHANGED <<impl, pending, suspended, functions, fnIdx, pc, cur,
                   submitted, destroyFired, enq, enqAt, done, resumeCount, finished,
                   loopExited>>
    /\ Reclaim

\* Runner::RunOrStart returns: nettest = nullptr, the mutex is released, and
\* NettestWrap::RunOrStart's local `runner` goes out of scope.
RunOrStart_exit ==
    /\ impl = "Runner"
    /\ pcL = "RunOrStart"
    /\ Unlock(Loop)
    /\ ext' = ext \ {"caller"}
    /\ pcL' = "idle"
    /\ UNCHANGED <<impl, handle, pending, suspended, functions, fnIdx, pc, cur,
                   selfref, submitted, destroyFired, enq, enqAt, done, resumeCount,
                   finished, loopExited>>
    /\ Reclaim

----------------------------------------------------------------------------
\* The engine.

\* A callback registered on the test is invoked on engine thread t and calls
\* suspend / SuspendOn with a closure holding copies of its arguments.  The
\* engine fires no callback after on_destroy.
on_callback(t) ==
    /\ t \in Workers
    /\ "engine" \in ext
    /\ handle # "uninit"
    /\ pc[t] = "idle"
    /\ ~destroyFired
    /\ SumOver(submitted, Threads) < MaxSubmit
    /\ cur' = [cur EXCEPT ![t] = Closure(t, submitted[t] + 1, "cb")]
    /\ submitted' = [submitted EXCEPT ![t] = @ + 1]
    /\ pc' = [pc EXCEPT ![t] = "lock"]
    /\ UNCHANGED <<impl, handle, pending, mutexOwner, mutexDepth, suspended,
                   functions, fnIdx, pcL, selfref, ext, freed, destroyFired,
                   enq, enqAt, done, resumeCount, finished, loopExited>>

\* Mutant of start_delete: uv_close is called on the engine thread instead
\* of being suspended.
start_delete_direct(t) ==
    /\ t \in Workers
    /\ "engine" \in ext
    /\ handle # "uninit"
    /\ \A w \in Workers : pc[w] = "idle"
    /\ ~destroyFired
    /\ destroyFired' = TRUE
    /\ uv_close
    /\ UNCHANGED <<impl, pending, mutexOwner, mutexDepth, suspended, functions,
                   fnIdx, pcL, pc, cur, selfref, ext, freed, submitted, enq,
                   enqAt, done, resumeCount, finished, loopExited>>

\* Mutant of start_delete: besides suspending the closing closure, uv_close
\* is called at once on the engine thread.
start_delete_closes(t) ==
    /\ t \in Workers
    /\ "engine" \in ext
    /\ handle # "uninit"
    /\ \A w \in Workers : pc[w] = "idle"
    /\ ~destroyFired
    /\ destroyFired' = TRUE
    /\ uv_close
    /\ cur' = [cur EXCEPT ![t] = Closure(t, submitted[t] + 1, "close")]
    /\ submitted' = [submitted EXCEPT ![t] = @ + 1]
    /\ pc' = [pc EXCEPT ![t] = "lock"]
    /\ UNCHANGED <<impl, pending, mutexOwner, mutexDepth, suspended, functions,
                   fnIdx, pcL, selfref, ext, freed, enq, enqAt, done,
                   resumeCount, finished, loopExited>>

\* start_delete(ctx), called by the test's on_destroy hook on engine thread
\* t: suspends the closure that closes the handle.  on_destroy fires once,
\* when every callback has returned.
start_delete(t) ==
    /\ t \in Workers
    /\ "engine" \in ext
    /\ handle # "uninit"
    /\ \A w \in Workers : pc[w] = "idle"
    /\ ~destroyFired
    /\ destroyFired' = TRUE
    /\ cur' = [cur EXCEPT ![t] = Closure(t, submitted[t] + 1, "close")]
    /\ submitted' = [submitted EXCEPT ![t] = @ + 1]
    /\ pc' = [pc EXCEPT ![t] = "lock"]
    /\ UNCHANGED <<impl, handle, pending, mutexOwner, mutexDepth, suspended,
                   functions, fnIdx, pcL, selfref, ext, freed, enq, enqAt, done,
                   resumeCount, finished, loopExited>>

\* The engine's test object is destroyed once its on_destroy hook has
\* returned, and with it the callbacks holding copies of the pointer; or the
\* caller lets go of the pointer make returned, at any time.
DropRef(h) ==
    /\ h \in ext
    /\ h = "engine" => (destroyFired /\ \A w \in Workers : pc[w] = "idle")
    /\ h = "caller" => impl = "Context"
    /\ ext' = ext \ {h}
    /\ UNCHANGED <<impl, handle, pending, mutexOwner, mutexDepth, suspended,
                   functions, fnIdx, pcL, pc, cur, selfref, submitted,
                   destroyFired, enq, enqAt, done, resumeCount, finished, loopExited>>
    /\ Reclaim

----------------------------------------------------------------------------
\* suspend<>() of async.hpp, one step per statement: lock, push_back,
\* uv_async_send, and the unlock at the end of the scope.
suspend_lock(t) ==
    /\ pc[t] = "lock"
    /\ Lock(t)
    /\ pc' = [pc EXCEPT ![t] = "first"]
    /\ UNCHANGED <<impl, handle, pending, suspended, functions, fnIdx, pcL,
                   cur, selfref, ext, freed, submitted, destroyFired, enq, enqAt,
                   done, resumeCount, finished, loopExited>>

suspend_push(t) ==
    /\ impl = "Context"
    /\ pc[t] = "first"
    /\ push_back(t)
    /\ pc' = [pc EXCEPT ![t] = "second"]
    /\ UNCHANGED <<impl, handle, pending, mutexOwner, mutexDepth, functions,
                   fnIdx, pcL, cur, selfref, ext, freed, submitted,
                   destroyFired, done, resumeCount, finished, loopExited>>

suspend_send(t) ==
    /\ impl = "Context"
    /\ pc[t] = "second"
    /\ uv_async_send
    /\ pc' = [pc EXCEPT ![t] = "unlock"]
    /\ UNCHANGED <<impl, handle, mutexOwner, mutexDepth, suspended, functions,
                   fnIdx, pcL, cur, selfref, ext, freed, submitted,
                   destroyFired, enq, enqAt, done, resumeCount, finished, loopExited>>

suspend_unlock(t) ==
    /\ pc[t] = "unlock"
    /\ Unlock(t)
    /\ pc' = [pc EXCEPT ![t] = "idle"]
    /\ cur' = [cur EXCEPT ![t] = NoClosure]
    /\ UNCHANGED <<impl, handle, pending, suspended, functions, fnIdx, pcL,
                   selfref, ext, freed, submitted, destroyFired, enq, enqAt, done,
                   resumeCount, finished, loopExited>>

\* Runner::SuspendOn of addon.cc: lock, uv_async_send, push_back, unlock.
SuspendOn_send(t) ==
    /\ impl = "Runner"
    /\ pc[t] = "first"
    /\ uv_async_send
    /\ pc' = [pc EXCEPT ![t] = "second"]
    /\ UNCHANGED <<impl, handle, mutexOwner, mutexDepth, suspended, functions,
                   fnIdx, pcL, cur, selfref, ext, freed, submitted,
                   destroyFired, enq, enqAt, done, resumeCount, finished, loopExited>>

SuspendOn_push(t) ==
    /\ impl = "Runner"
    /\ pc[t] = "second"
    /\ push_back(t)
    /\ pc' = [pc EXCEPT ![t] = "unlock"]
    /\ UNCHANGED <<impl, handle, pending, mutexOwner, mutexDepth, functions,
                   fnIdx, pcL, cur, selfref, ext, submitted, destroyFired,
                   done, resumeCount, finished, loopExited>>
    /\ Reclaim

\* The steps of a suspend call in progress on thread t.
suspend(t) ==
    \/ suspend_lock(t)
    \/ suspend_push(t)
    \/ suspend_send(t)
    \/ SuspendOn_send(t)
    \/ SuspendOn_push(t)
    \/ suspend_unlock(t)

\* uv_async_send returns non-zero in suspend<>() of async.hpp: the closure
\* has been pushed already, no wake is signalled.
suspend_send_fail(t) ==
    /\ impl = "Context"
    /\ pc[t] = "second"
    /\ pc' = [pc EXCEPT ![t] = "failed"]
    /\ UNCHANGED <<impl, handle, pending, mutexOwner, mutexDepth, suspended,
                   functions, fnIdx, pcL, cur, selfref, ext, freed, submitted,
                   destroyFired, enq, enqAt, done, resumeCount, finished,
                   loopExited>>

\* uv_async_send returns non-zero in Runner::SuspendOn: nothing has been
\* pushed yet, no wake is signalled.
SuspendOn_send_fail(t) ==
    /\ impl = "Runner"
    /\ pc[t] = "first"
    /\ pc' = [pc EXCEPT ![t] = "failed"]
    /\ UNCHANGED <<impl, handle, pending, mutexOwner, mutexDepth, suspended,
                   functions, fnIdx, pcL, cur, selfref, ext, freed, submitted,
                   destroyFired, enq, enqAt, done, resumeCount, finished,
                   loopExited>>

\* Mutant of suspend_throw: the failure is swallowed and the call returns.
suspend_swallow(t) ==
    /\ pc[t] = "failed"
    /\ Unlock(t)
    /\ pc' = [pc EXCEPT ![t] = "idle"]
    /\ cur' = [cur EXCEPT ![t] = NoClosure]
    /\ UNCHANGED <<impl, handle, pending, suspended, functions, fnIdx, pcL,
                   selfref, ext, freed, submitted, destroyFired, enq, enqAt, done,
                   resumeCount, finished, loopExited>>

\* throw std::runtime_error("uv_async_send"): the unwinding releases the
\* mutex and the exception leaves the call on the calling thread, which
\* does not catch it.
suspend_throw(t) ==
    /\ pc[t] = "failed"
    /\ Unlock(t)
    /\ pc' = [pc EXCEPT ![t] = "thrown"]
    /\ cur' = [cur EXCEPT ![t] = NoClosure]
    /\ UNCHANGED <<impl, handle, pending, suspended, functions, fnIdx, pcL,
                   selfref, ext, freed, submitted, destroyFired, enq, enqAt, done,
                   resumeCount, finished, loopExited>>

----------------------------------------------------------------------------
\* The loop thread.

\* Mutant of uv_async_io: mkuv_resume moves `self` onto its stack instead
\* of copying it.
uv_async_io_moves_self ==
    /\ pcL = "idle"
    /\ ~loopExited
    /\ handle = "active"
    /\ pending
    /\ pending' = FALSE
    /\ selfref' = FALSE
    /\ pcL' = "resume"
    /\ UNCHANGED <<impl, handle, mutexOwner, mutexDepth, suspended, functions,
                   fnIdx, pc, cur, ext, submitted, destroyFired, enq, enqAt,
                   done, resumeCount, finished, loopExited>>
    /\ Reclaim

\* Mutant of uv_async_io: a wake is still served while the handle is being
\* closed.
uv_async_io_closing ==
    /\ pcL = "idle"
    /\ ~loopExited
    /\ handle \in {"active", "closing"}
    /\ pending
    /\ pending' = FALSE
    /\ pcL' = "resume"
    /\ UNCHANGED <<impl, handle, mutexOwner, mutexDepth, suspended, functions,
                   fnIdx, pc, cur, selfref, ext, submitted, destroyFired, enq, enqAt,
                   done, resumeCount, finished, loopExited>>
    /\ Reclaim

\* The loop finds the handle pending and calls mkuv_resume once: the pending
\* flag is cleared, the callback copies `self` onto its stack.
uv_async_io ==
    /\ pcL = "idle"
    /\ ~loopExited
    /\ handle = "active"
    /\ pending
    /\ pending' = FALSE
    /\ pcL' = "resume"
    /\ UNCHANGED <<impl, handle, mutexOwner, mutexDepth, suspended, functions,
                   fnIdx, pc, cur, selfref, ext, submitted, destroyFired, enq, enqAt,
                   done, resumeCount, finished, loopExited>>
    /\ Reclaim

\* Mutant of mkuv_resume_swap: the list is copied, not swapped.
mkuv_resume_copy ==
    /\ pcL = "resume"
    /\ CanLock(Loop)
    /\ functions' = suspended
    /\ fnIdx' = 1
    /\ resumeCount' = resumeCount + 1
    /\ pcL' = "run"
    /\ UNCHANGED <<impl, handle, pending, mutexOwner, mutexDepth, suspended,
                   pc, cur, selfref, ext, submitted, destroyFired, enq, enqAt,
                   done, finished, loopExited>>
    /\ Reclaim

\* Mutant of mkuv_resume_swap: one closure is taken per wake.
mkuv_resume_pop_one ==
    /\ pcL = "resume"
    /\ CanLock(Loop)
    /\ functions' = IF suspended = <<>> THEN <<>> ELSE <<Head(suspended)>>
    /\ suspended' = IF suspended = <<>> THEN <<>> ELSE Tail(suspended)
    /\ fnIdx' = 1
    /\ resumeCount' = resumeCount + 1
    /\ pcL' = "run"
    /\ UNCHANGED <<impl, handle, pending, mutexOwner, mutexDepth, pc, cur,
                   selfref, ext, submitted, destroyFired, enq, enqAt, done,
                   finished, loopExited>>
    /\ Reclaim

\* Mutant of mkuv_resume_swap: the swap does not take the mutex.
mkuv_resume_swap_unlocked ==
    /\ pcL = "resume"
    /\ functions' = suspended
    /\ suspended' = <<>>
    /\ fnIdx' = 1
    /\ resumeCount' = resumeCount + 1
    /\ pcL' = "run"
    /\ UNCHANGED <<impl, handle, pending, mutexOwner, mutexDepth, pc, cur,
                   selfref, ext, submitted, destroyFired, enq, enqAt, done, finished,
                   loopExited>>
    /\ Reclaim

\* mkuv_resume / Runner::Resume: under the mutex, swap `suspended` with the
\* empty local list.
mkuv_resume_swap ==
    /\ pcL = "resume"
    /\ CanLock(Loop)
    /\ functions' = suspended
    /\ suspended' = <<>>
    /\ fnIdx' = 1
    /\ resumeCount' = resumeCount + 1
    /\ pcL' = "run"
    /\ UNCHANGED <<impl, handle, pending, mutexOwner, mutexDepth, pc, cur,
                   selfref, ext, submitted, destroyFired, enq, enqAt, done, finished,
                   loopExited>>
    /\ Reclaim

\* Mutant of fn: the closure of start_delete does not call uv_close.
fn_noclose(c) ==
    /\ UNCHANGED handle
    /\ UNCHANGED <<pc, cur, submitted>>

\* What calling closure c does: the closure of start_delete calls uv_close;
\* a callback closure calls into Node, and may call suspend again.
fn(c) ==
    IF c.kind = "close"
    THEN /\ uv_close
         /\ UNCHANGED <<pc, cur, submitted>>
    ELSE /\ UNCHANGED handle
         /\ \/ UNCHANGED <<pc, cur, submitted>>
            \/ /\ c.thr # Loop
               /\ ~destroyFired
               /\ SumOver(submitted, Threads) < MaxSubmit
               /\ cur' = [cur EXCEPT ![Loop] =
                              Closure(Loop, submitted[Loop] + 1, "cb")]
               /\ submitted' = [submitted EXCEPT ![Loop] = @ + 1]
               /\ pc' = [pc EXCEPT ![Loop] = "lock"]

\* for (auto &fn : functions) fn();  one iteration.
mkuv_resume_call ==
    /\ pcL = "run"
    /\ pc[Loop] = "idle"
    /\ fnIdx <= Len(functions)
    /\ fn(functions[fnIdx])
    /\ done' = Append(done, [c |-> functions[fnIdx], by |-> Loop,
                             inv |-> resumeCount])
    /\ fnIdx' = fnIdx + 1
    /\ UNCHANGED <<impl, pending, mutexOwner, mutexDepth, suspended, functions,
                   pcL, selfref, ext, freed, destroyFired, enq, enqAt, resumeCount,
                   finished, loopExited>>

\* Mutant of mkuv_resume_return: the invocation goes on with what was
\* queued meanwhile instead of returning.
mkuv_resume_drain ==
    /\ pcL = "run"
    /\ pc[Loop] = "idle"
    /\ fnIdx > Len(functions)
    /\ CanLock(Loop)
    /\ functions' = suspended
    /\ suspended' = <<>>
    /\ fnIdx' = 1
    /\ pcL' = IF suspended = <<>> THEN "idle" ELSE "run"
    /\ UNCHANGED <<impl, handle, pending, mutexOwner, mutexDepth, pc, cur,
                   selfref, ext, submitted, destroyFired, enq, enqAt, done,
                   resumeCount, finished, loopExited>>
    /\ Reclaim

\* mkuv_resume returns: `functions` and the stack copy of `self` die.
mkuv_resume_return ==
    /\ pcL = "run"
    /\ pc[Loop] = "idle"
    /\ fnIdx > Len(functions)
    /\ functions' = <<>>
    /\ fnIdx' = 1
    /\ pcL' = "idle"
    /\ UNCHANGED <<impl, handle, pending, mutexOwner, mutexDepth, suspended,
                   pc, cur, selfref, ext, submitted, destroyFired, enq, enqAt, done,
                   resumeCount, finished, loopExited>>
    /\ Reclaim

\* Mutant of mkuv_delete: the close callback does not clear the self
\* reference.
mkuv_delete_keeps_self ==
    /\ pcL = "idle"
    /\ ~loopExited
    /\ handle = "closing"
    /\ handle' = "closed"
    /\ finished' = TRUE
    /\ UNCHANGED <<impl, pending, mutexOwner, mutexDepth, suspended, functions,
                   fnIdx, pcL, pc, cur, selfref, ext, submitted, destroyFired,
                   enq, enqAt, done, resumeCount, loopExited>>
    /\ Reclaim

\* mkuv_delete / mkuv_destroy: libuv has closed the handle and calls the
\* close callback, which removes the self reference.
mkuv_delete ==
    /\ pcL = "idle"
    /\ ~loopExited
    /\ handle = "closing"
    /\ handle' = "closed"
    /\ selfref' = FALSE
    /\ finished' = TRUE
    /\ UNCHANGED <<impl, pending, mutexOwner, mutexDepth, suspended, functions,
                   fnIdx, pcL, pc, cur, ext, submitted, destroyFired, enq, enqAt,
                   done, resumeCount, loopExited>>
    /\ Reclaim

\* uv_run returns when no handle is active or closing.
uv_run_exit ==
    /\ pcL = "idle"
    /\ ~loopExited
    /\ handle \notin {"active", "closing"}
    /\ loopExited' = TRUE
    /\ UNCHANGED <<impl, handle, pending, mutexOwner, mutexDepth, suspended,
                   functions, fnIdx, pcL, pc, cur, selfref, ext, freed,
                   submitted, destroyFired, enq, enqAt, done, resumeCount, finished>>

LoopStep ==
    \/ make
    \/ RunOrStart_enter
    \/ RunOrStart_exit
    \/ uv_async_io
    \/ mkuv_resume_swap
    \/ mkuv_resume_call
    \/ mkuv_resume_return
    \/ mkuv_delete

Next ==
    \/ LoopStep
    \/ uv_run_exit
    \/ \E t \in Workers : on_callback(t)
    \/ \E t \in Workers : start_delete(t)
    \/ \E t \in Threads : suspend(t)
    \/ \E h \in Holders : DropRef(h)

Spec == Init /\ [][Next]_vars

\* The loop keeps running and every thread inside suspend keeps running.
FairSpec ==
    /\ Spec
    /\ WF_vars(LoopStep)
    /\ \A t \in Threads : WF_vars(suspend(t))

----------------------------------------------------------------------------
\* NettestWrap of nettest_wrap.hpp: the wrapper keeps its UvAsyncCtx, made
\* by its constructor, in the member `async`, and RunOrStart can be called
\* again on the same object; each call registers an on_destroy hook calling
\* start_delete and starts the test, with lambdas holding copies of `async`.

\* The calls of start_delete made so far: one per closure calling uv_close
\* that has been pushed or is being suspended.
CloseCalls ==
    Cardinality({enq[i] : i \in {k \in 1..Len(enq) : enq[k].kind = "close"}}
                \cup {cur[t] : t \in {u \in Threads : cur[u].kind = "close"}})

\* Mutant of RunOrStart_again: the further call makes the context anew,
\* setting the self reference and registering the handle again.
RunOrStart_again_init ==
    /\ impl = "Context"
    /\ "caller" \in ext
    /\ "engine2" \notin ext
    /\ handle # "uninit"
    /\ CloseCalls < 2
    /\ \/ pcL = "idle" /\ resumeCount = 0
       \/ pcL = "run" /\ fnIdx > 1 /\ functions[fnIdx - 1].kind = "cb"
    /\ pc[Loop] = "idle"
    /\ ~loopExited
    /\ ext' = ext \cup {"engine2"}
    /\ selfref' = TRUE
    /\ uv_async_init(0)
    /\ UNCHANGED <<impl, pending, mutexOwner, mutexDepth, suspended,
                   functions, fnIdx, pcL, pc, cur, freed, submitted,
                   destroyFired, enq, enqAt, done, resumeCount, finished,
                   loopExited>>

\* NettestWrap::RunOrStart called once more by JavaScript, on the loop
\* thread: by the script that made the first call, before the loop has
\* resumed anything, or by a JavaScript callback that a resumed closure is
\* calling.  Nothing refuses the call.
RunOrStart_again ==
    /\ impl = "Context"
    /\ "caller" \in ext
    /\ "engine2" \notin ext
    /\ handle # "uninit"
    /\ CloseCalls < 2
    /\ \/ pcL = "idle" /\ resumeCount = 0
       \/ pcL = "run" /\ fnIdx > 1 /\ functions[fnIdx - 1].kind = "cb"
    /\ pc[Loop] = "idle"
    /\ ~loopExited
    /\ ext' = ext \cup {"engine2"}
    /\ UNCHANGED <<impl, handle, pending, mutexOwner, mutexDepth, suspended,
                   functions, fnIdx, pcL, pc, cur, selfref, freed, submitted,
                   destroyFired, enq, enqAt, done, resumeCount, finished,
                   loopExited>>

\* A callback of the test started by the further RunOrStart is invoked on
\* engine thread t and calls suspend.
on_callback2(t) ==
    /\ t \in Workers
    /\ "engine2" \in ext
    /\ pc[t] = "idle"
    /\ CloseCalls < 2
    /\ SumOver(submitted, Threads) < MaxSubmit
    /\ cur' = [cur EXCEPT ![t] = Closure(t, submitted[t] + 1, "cb")]
    /\ submitted' = [submitted EXCEPT ![t] = @ + 1]
    /\ pc' = [pc EXCEPT ![t] = "lock"]
    /\ UNCHANGED <<impl, handle, pending, mutexOwner, mutexDepth, suspended,
                   functions, fnIdx, pcL, selfref, ext, freed, destroyFired,
                   enq, enqAt, done, resumeCount, finished, loopExited>>

\* The on_destroy hook registered by the further RunOrStart fires on engine
\* thread t, when the callbacks have returned: start_delete is called on a
\* context whose deletion has been started already.
on_destroy_again(t) ==
    /\ t \in Workers
    /\ "engine2" \in ext
    /\ \A w \in Workers : pc[w] = "idle"
    /\ destroyFired
    /\ CloseCalls = 1
    /\ cur' = [cur EXCEPT ![t] = Closure(t, submitted[t] + 1, "close")]
    /\ submitted' = [submitted EXCEPT ![t] = @ + 1]
    /\ pc' = [pc EXCEPT ![t] = "lock"]
    /\ UNCHANGED <<impl, handle, pending, mutexOwner, mutexDepth, suspended,
                   functions, fnIdx, pcL, selfref, ext, freed, destroyFired,
                   enq, enqAt, done, resumeCount, finished, loopExited>>

\* The test started by the further RunOrStart is destroyed once its
\* on_destroy hook has returned, and with it the lambdas holding `async`.
DropRef2 ==
    /\ "engine2" \in ext
    /\ CloseCalls = 2
    /\ \A w \in Workers : pc[w] = "idle"
    /\ ext' = ext \ {"engine2"}
    /\ UNCHANGED <<impl, handle, pending, mutexOwner, mutexDepth, suspended,
                   functions, fnIdx, pcL, pc, cur, selfref, submitted,
                   destroyFired, enq, enqAt, done, resumeCount, finished, loopExited>>
    /\ Reclaim

\* The program when JavaScript may call run / start again, for as long as
\* the test started by the further call has not been destroyed.
NextLate ==
    \/ Next
    \/ RunOrStart_again
    \/ \E t \in Workers : on_callback2(t)

LateSpec == Init /\ [][NextLate]_vars

\* The program when JavaScript may call run / start again, the destruction
\* of the test started by the further call included.
NextWrap ==
    \/ NextLate
    \/ \E t \in Workers : on_destroy_again(t)
    \/ DropRef2

WrapSpec == Init /\ [][NextWrap]_vars

\* self->nettest->run(), the branch of Runner::RunOrStart taken when no
\* final callback was given: the loop thread, which holds the mutex since
\* the first statement of RunOrStart, waits inside run() for the test to be
\* over.
nettest_run ==
    /\ impl = "Runner"
    /\ pcL = "RunOrStart"
    /\ SumOver(submitted, Threads) = 0
    /\ ~destroyFired
    /\ pcL' = "nettest_run"
    /\ UNCHANGED <<impl, handle, pending, mutexOwner, mutexDepth, suspended,
                   functions, fnIdx, pc, cur, selfref, ext, freed, submitted,
                   destroyFired, enq, enqAt, done, resumeCount, finished,
                   loopExited>>

\* run() returns when the test is over, which it is not while a callback
\* that the engine has invoked on one of its threads has not returned.
nettest_run_return ==
    /\ pcL = "nettest_run"
    /\ \A w \in Workers : pc[w] = "idle"
    /\ pcL' = "RunOrStart"
    /\ UNCHANGED <<impl, handle, pending, mutexOwner, mutexDepth, suspended,
                   functions, fnIdx, pc, cur, selfref, ext, freed, submitted,
                   destroyFired, enq, enqAt, done, resumeCount, finished,
                   loopExited>>

\* The program when a test may also be run synchronously.
NextSync ==
    \/ Next
    \/ nettest_run
    \/ nettest_run_return

SyncSpec == Init /\ [][NextSync]_vars

\* The closure suspended by the on_progress callback of Runner::RunOrStart,
\* called by resume: it takes the mutex and then calls the JavaScript
\* function progress_cb with the mutex held.
progress_cb_Call ==
    /\ impl = "Runner"
    /\ pcL = "run"
    /\ pc[Loop] = "idle"
    /\ fnIdx <= Len(functions)
    /\ functions[fnIdx].kind = "cb"
    /\ Lock(Loop)
    /\ pc' = [pc EXCEPT ![Loop] = "progress_cb"]
    /\ UNCHANGED <<impl, handle, pending, suspended, functions, fnIdx, pcL,
                   cur, selfref, ext, freed, submitted, destroyFired, enq,
                   enqAt, done, resumeCount, finished, loopExited>>

\* progress_cb returns and the closure ends, releasing the mutex.
progress_cb_return ==
    /\ pc[Loop] = "progress_cb"
    /\ Unlock(Loop)
    /\ pc' = [pc EXCEPT ![Loop] = "idle"]
    /\ done' = Append(done, [c |-> functions[fnIdx], by |-> Loop,
                             inv |-> resumeCount])
    /\ fnIdx' = fnIdx + 1
    /\ UNCHANGED <<impl, handle, pending, suspended, functions, pcL, cur,
                   selfref, ext, freed, submitted, destroyFired, enq, enqAt,
                   resumeCount, finished, loopExited>>

\* The program when the test reports its progress: a callback closure of
\* the Runner may be the one of on_progress.
NextProgress ==
    \/ Next
    \/ progress_cb_Call
    \/ progress_cb_return

ProgressSpec == Init /\ [][NextProgress]_vars

\* Mutant of RunOrStart_selfref: the self reference is not looked at and
\* the call goes on to register the handle and the callbacks.
RunOrStart_selfref_ignored ==
    /\ impl = "Runner"
    /\ selfref
    /\ ext # {}
    /\ pcL \in {"RunOrStart", "idle"}
    /\ pc[Loop] = "idle"
    /\ ~loopExited
    /\ CanLock(Loop)
    /\ uv_async_init(0)
    /\ ext' = ext \cup {"engine"}
    /\ pc' = [pc EXCEPT ![Loop] = "thrown"]
    /\ UNCHANGED <<impl, pending, mutexOwner, mutexDepth, suspended,
                   functions, fnIdx, pcL, cur, selfref, freed, submitted,
                   destroyFired, enq, enqAt, done, resumeCount, finished,
                   loopExited>>

\* Runner::RunOrStart called, on the loop thread, by a holder of the pointer
\* to a Runner whose self reference is set: the call takes the (recursive)
\* mutex, throws std::runtime_error("already_selfref") and the unwinding
\* releases the mutex.  Nothing catches the exception.
RunOrStart_selfref ==
    /\ impl = "Runner"
    /\ selfref
    /\ ext # {}
    /\ pcL \in {"RunOrStart", "idle"}
    /\ pc[Loop] = "idle"
    /\ ~loopExited
    /\ CanLock(Loop)
    /\ pc' = [pc EXCEPT ![Loop] = "thrown"]
    /\ UNCHANGED <<impl, handle, pending, mutexOwner, mutexDepth, suspended,
                   functions, fnIdx, pcL, cur, selfref, ext, freed, submitted,
                   destroyFired, enq, enqAt, done, resumeCount, finished,
                   loopExited>>

\* The program when Runner::RunOrStart may be called on a Runner that has
\* been started.
NextAgain ==
    \/ Next
    \/ RunOrStart_selfref

AgainSpec == Init /\ [][NextAgain]_vars

\* Mutant of fn_throws: resume catches the exception and puts the rest of
\* the batch back at the front of `suspended`.
fn_throws_requeue ==
    /\ pcL = "run"
    /\ pc[Loop] = "idle"
    /\ fnIdx <= Len(functions)
    /\ functions[fnIdx].kind = "cb"
    /\ done' = Append(done, [c |-> functions[fnIdx], by |-> Loop,
                             inv |-> resumeCount])
    /\ suspended' = SubSeq(functions, fnIdx + 1, Len(functions)) \o suspended
    /\ functions' = <<>>
    /\ pcL' = "fault"
    /\ UNCHANGED <<impl, handle, pending, mutexOwner, mutexDepth, fnIdx, pc,
                   cur, selfref, ext, submitted, destroyFired, enq, enqAt,
                   resumeCount, finished, loopExited>>
    /\ Reclaim

\* A callback closure called by resume throws.  Nothing in mkuv_resume /
\* Resume catches: the exception leaves the loop over `functions` and the
\* function, into the C frames of libuv that called it, where the build
\* decides whether the stack is unwound (and `functions` destroyed) before
\* the process terminates.  The loop thread makes no further step.
fn_throws ==
    /\ pcL = "run"
    /\ pc[Loop] = "idle"
    /\ fnIdx <= Len(functions)
    /\ functions[fnIdx].kind = "cb"
    /\ done' = Append(done, [c |-> functions[fnIdx], by |-> Loop,
                             inv |-> resumeCount])
    /\ \E unwound \in BOOLEAN :
          functions' = IF unwound THEN <<>> ELSE functions
    /\ pcL' = "fault"
    /\ UNCHANGED <<impl, handle, pending, mutexOwner, mutexDepth, suspended,
                   fnIdx, pc, cur, selfref, ext, submitted, destroyFired, enq,
                   enqAt, resumeCount, finished, loopExited>>
    /\ Reclaim

\* The program when a closure may throw.
NextFault ==
    \/ Next
    \/ fn_throws

FaultSpec == Init /\ [][NextFault]_vars

\* NettestWrap::NettestWrap of nettest_wrap.hpp: `new FooTest()` makes the
\* context, which sets the self reference and registers the handle, and
\* keeps the pointer in the member `async`; no test has been started.
NettestWrap_new ==
    /\ impl = "Context"
    /\ pcL = "init"
    /\ selfref' = TRUE
    /\ uv_async_init(0)
    /\ ext' = {"caller"}
    /\ pcL' = "idle"
    /\ UNCHANGED <<impl, pending, mutexOwner, mutexDepth, suspended, functions,
                   fnIdx, pc, cur, submitted, destroyFired, enq, enqAt, done,
                   resumeCount, finished, loopExited>>
    /\ Reclaim

\* NettestWrap::RunOrStart of nettest_wrap.hpp, called for the first time
\* on a wrapper that JavaScript still holds: the on_destroy hook and the
\* final callback registered on the test hold copies of `async`.
NettestWrap_RunOrStart ==
    /\ impl = "Context"
    /\ pcL = "idle"
    /\ pc[Loop] = "idle"
    /\ "caller" \in ext
    /\ "engine" \notin ext
    /\ ~destroyFired
    /\ ~loopExited
    /\ ext' = ext \cup {"engine"}
    /\ UNCHANGED <<impl, handle, pending, mutexOwner, mutexDepth, suspended,
                   functions, fnIdx, pcL, pc, cur, selfref, freed, submitted,
                   destroyFired, enq, enqAt, done, resumeCount, finished,
                   loopExited>>

\* The program when a wrapper may be constructed without being started.
NextNew ==
    \/ Next
    \/ NettestWrap_new
    \/ NettestWrap_RunOrStart

NewSpec == Init /\ [][NextNew]_vars

\* The same program when uv_async_send may fail.
NextFail ==
    \/ Next
    \/ \E t \in Threads : suspend_send_fail(t)
    \/ \E t \in Threads : SuspendOn_send_fail(t)
    \/ \E t \in Threads : suspend_throw(t)

FailSpec == Init /\ [][NextFail]_vars

----------------------------------------------------------------------------
\* Properties.

Executed(c) == \E i \in 1..Len(done) : done[i].c = c
NoThreadInSuspend == \A t \in Threads : pc[t] = "idle"

\* C1: every closure pushed by a suspend call is called at most once, only
\* after its push, only by the loop thread inside a resume invocation, and
\* once the loop has drained (queue empty, no batch in progress) every
\* pushed closure has been called exactly once.
C1_ExactlyOnceOnLoop ==
    /\ \A i, j \in 1..Len(done) : i # j => done[i].c # done[j].c
    /\ \A i \in 1..Len(done) :
          /\ done[i].by = Loop
          /\ done[i].inv \in 1..resumeCount
          /\ \E k \in 1..Len(enq) : enq[k] = done[i].c
    /\ (suspended = <<>> /\ pcL # "run") =>
          \A k \in 1..Len(enq) : Executed(enq[k])

\* Two closures suspended by two different worker threads have both been
\* called and the loop has drained.
C1_Witness ==
    /\ suspended = <<>>
    /\ pcL = "idle"
    /\ NoThreadInSuspend
    /\ \E i, j \in 1..Len(done) :
          /\ done[i].c.thr \in Workers
          /\ done[j].c.thr \in Workers
          /\ done[i].c.thr # done[j].c.thr

\* C2: closures are called in the order of their push_back, within one
\* batch and across batches, so two closures of the same thread are never
\* called in the reverse of their submission order.
C2_FifoOrder ==
    /\ Len(done) <= Len(enq)
    /\ \A i \in 1..Len(done) : done[i].c = enq[i]
    /\ \A i, j \in 1..Len(done) :
          (i < j /\ done[i].c.thr = done[j].c.thr) =>
              done[i].c.seq < done[j].c.seq

\* Two closures of one worker thread were called by two different resume
\* invocations, after a closure of the other worker thread.
C2_Witness ==
    \E i, j, k \in 1..Len(done) :
        /\ i < j /\ j < k
        /\ done[j].c.thr = done[k].c.thr
        /\ done[i].c.thr # done[j].c.thr
        /\ done[j].inv < done[k].inv

\* Some closure pushed into `suspended` has not been called yet.
Backlog == Len(done) < Len(enq)

C4_CoalescedWakeDrainsAll ==
    /\ \A i \in 1..Len(done) :
          i <= Len(enqAt) /\ done[i].inv = enqAt[i].at + 1
    /\ (pcL = "run" /\ fnIdx > Len(functions)) =>
          \A k \in 1..Len(enq) : enqAt[k].at < resumeCount => Executed(enq[k])

\* Two suspend calls of two worker threads completed before the first wake
\* was handled, and the one resume that followed called both closures.
C4_Witness ==
    /\ resumeCount = 1
    /\ pcL = "idle"
    /\ ~pending
    /\ NoThreadInSuspend
    /\ Len(done) = 2
    /\ done[1].c.thr # done[2].c.thr
    /\ done[1].inv = 1 /\ done[2].inv = 1

\* Some closure pushed while a resume invocation was calling its batch has
\* not been called yet.
QueuedDuringResume ==
    \E n \in 1..Len(enq) : enqAt[n].running /\ Len(done) < n

C6_RegisteredImpliesAlive ==
    handle \in {"active", "closing"} => ~freed

\* Every external holder has dropped its pointer, nothing is queued and no
\* resume is in progress, while the handle is still registered: the self
\* reference is the only one left.
C6_Witness ==
    /\ handle \in {"active", "closing"}
    /\ ext = {}
    /\ suspended = <<>>
    /\ pcL = "idle"
    /\ Refs = 1
    /\ ~freed

Allocated == impl = "Runner" \/ pcL # "init"
CloseExecuted == \E i \in 1..Len(done) : done[i].c.kind = "close"

\* C7 as stated: the self reference is non-null in every state from the
\* construction of the object until the close callback has run.
C7_SelfRefSinceConstruction ==
    (Allocated /\ ~finished) => selfref

\* C7 as amended: the self reference is set by create (make, or
\* Runner::RunOrStart for a Runner, which is constructed without it); it is
\* non-null from then until the close callback runs, it becomes null at most
\* once, only in the close callback, and is never set again afterwards.
C7_SelfRefLifetime ==
    /\ []((pcL # "init" /\ ~finished) => selfref)
    /\ [](finished => ~selfref)
    /\ [][(selfref /\ ~selfref') => (~finished /\ finished')]_vars
    /\ [][(~selfref /\ selfref') => (pcL = "init" /\ ~finished)]_vars
    /\ [][finished => finished']_vars

\* The close callback has cleared the self reference of an object that had
\* been created and torn down.
C7_Witness ==
    /\ finished
    /\ ~selfref
    /\ CloseExecuted

\* C8: from a successful create until the close callback has run, uv_run
\* has not returned, also when nothing is queued and nothing is pending.
C8_LoopKeptAlive ==
    (handle # "uninit" /\ ~finished) => ~loopExited

\* The loop is idle with an empty queue and no wake pending, after having
\* resumed a closure, and is still running.
C8_Witness ==
    /\ handle = "active"
    /\ suspended = <<>>
    /\ ~pending
    /\ pcL = "idle"
    /\ NoThreadInSuspend
    /\ Len(done) >= 1
    /\ ~loopExited

\* C9: under a fair loop and fair threads, once on_destroy has fired the
\* closure of start_delete is eventually called and the close callback
\* eventually runs; from then on the handle is closed, so that uv_run can
\* return as soon as the loop thread is idle.
C9_TeardownTerminates ==
    /\ destroyFired ~> (finished /\ CloseExecuted)
    /\ [](finished => handle = "closed")
    /\ []((finished /\ pcL = "idle") => (loopExited \/ ENABLED uv_run_exit))

\* The test is over, the bridge torn down and uv_run has returned.
C9_Witness ==
    /\ destroyFired
    /\ finished
    /\ loopExited

\* C10: the closure of start_delete is called only after every closure
\* pushed before it has been called; uv_close is called by nothing else,
\* and the close callback runs only after that closure has been called and
\* the resume that called it has returned.
C10_TeardownOrdering ==
    /\ [](\A i \in 1..Len(done) : \A m \in 1..Len(enq) :
             (done[i].c.kind = "close" /\ enq[m] = done[i].c) =>
                 \A k \in 1..(m - 1) :
                     \E j \in 1..(i - 1) : done[j].c = enq[k])
    /\ [](handle \in {"closing", "closed"} => CloseExecuted)
    /\ [][(~finished /\ finished') => (CloseExecuted /\ pcL = "idle")]_vars

\* The close callback has run after a resume that called a callback
\* closure and then, last, the closure of start_delete.
C10_Witness ==
    /\ finished
    /\ Len(done) >= 2
    /\ done[1].c.kind = "cb"
    /\ done[Len(done)].c.kind = "close"

\* C11: uv_close is called only by the loop thread, from inside the closure
\* of start_delete while resume is calling its batch; the on_destroy hook on
\* an engine thread only starts a suspend of that closure, and no step of a
\* worker's suspend touches the handle.
C11_CloseOnlyOnLoop ==
    /\ [][(handle # "closing" /\ handle' = "closing") =>
            /\ pcL = "run"
            /\ pc[Loop] = "idle"
            /\ fnIdx <= Len(functions)
            /\ functions[fnIdx].kind = "close"
            /\ done' = Append(done, [c |-> functions[fnIdx], by |-> Loop,
                                     inv |-> resumeCount])]_vars
    /\ [][(~destroyFired /\ destroyFired') =>
            /\ handle' = handle
            /\ \E t \in Workers :
                  cur'[t].kind = "close" /\ pc[t] = "idle" /\ pc'[t] = "lock"]_vars
    /\ [][(\E t \in Workers : pc'[t] # pc[t]) => handle' = handle]_vars

\* The closure of start_delete, suspended by an engine thread, has just
\* called uv_close inside a resume that is still in progress.
C11_Witness ==
    /\ destroyFired
    /\ handle = "closing"
    /\ pcL = "run"
    /\ done # <<>>
    /\ done[Len(done)].c.kind = "close"
    /\ done[Len(done)].c.thr \in Workers

\* C12: the object is not deallocated in a state in which a closure is in
\* `suspended`, or in the batch of a resume in progress; so the deallocation
\* that follows the close callback finds the list empty.
C12_NotFreedWhileQueued ==
    freed =>
        /\ suspended = <<>>
        /\ functions = <<>>
        /\ pcL \notin {"resume", "run"}

\* The object has been deallocated after the close callback, and closures
\* of an engine thread had been queued and called before.
C12_Witness ==
    /\ freed
    /\ finished
    /\ Len(done) >= 2
    /\ done[1].c.kind = "cb"
    /\ done[1].c.thr \in Workers

\* An external copy of the pointer exists: a holder outside the object, a
\* queued closure that captured it, or the stack copy of a resume.
ExternallyHeld ==
    \/ ext # {}
    \/ CountRefs(suspended) + CountRefs(functions) > 0
    \/ pcL \in {"resume", "run"}

\* C13: once the close callback has cleared the self reference, the object
\* is deallocated exactly in the states in which no external copy of the
\* pointer is left; it is deallocated by the close callback itself when
\* none is left at that point, by the drop of the last copy otherwise, and
\* it is not deallocated before the close callback.
C13_FreedWithLastReference ==
    /\ [](finished => (freed <=> ~ExternallyHeld))
    /\ [](freed => finished)
    /\ [][(~finished /\ finished') => (freed' <=> ext = {})]_vars
    /\ [][(finished /\ ~freed /\ freed') =>
              (ext # {} /\ ext' = {})]_vars

\* The close callback has run and the object is still alive, because an
\* external holder has not dropped its copy of the pointer yet.
C13_Witness ==
    /\ finished
    /\ ~selfref
    /\ ext # {}
    /\ ~freed

\* make / Runner::RunOrStart has thrown because uv_async_init failed.
InitFailed == pcL # "init" /\ handle = "uninit"

\* C14: when uv_async_init fails in make / Runner::RunOrStart, the caller
\* is left without a pointer to the object, the self reference is not left
\* set and the object has been deallocated.
C14_InitFailureUnwinds ==
    InitFailed => (ext = {} /\ ~selfref /\ freed)

\* C15: when uv_async_send has returned non-zero in a suspend call, the
\* next step of the calling thread is the throw: no wake is signalled, the
\* send is not tried again, the call does not return normally, and the
\* thread that took the exception makes no further step.
C15_SendFailureIsFatal ==
    /\ [][\A t \in Threads :
             (pc[t] = "failed" /\ pc'[t] # "failed") =>
                 (pc'[t] = "thrown" /\ pending' = pending)]_vars
    /\ [][\A t \in Threads : pc[t] = "thrown" => pc'[t] = "thrown"]_vars
    /\ [](\A t \in Threads : pc[t] = "failed" => mutexOwner = t)

\* An engine thread has taken the exception of a failed uv_async_send and
\* the mutex it held is free again.
C15_Witness ==
    \E t \in Workers :
        /\ pc[t] = "thrown"
        /\ mutexDepth = 0
        /\ ~pending

\* The closures of start_delete pushed so far.
ClosePushed == {i \in 1..Len(enq) : enq[i].kind = "close"}

\* C16: a second start_delete on a context whose deletion has been started
\* is refused with an error: it never begins to suspend, and never pushes, a
\* second closure calling uv_close.
C16_DoubleTeardownRejected ==
    /\ Cardinality(ClosePushed) <= 1
    /\ \A t \in Threads :
          (cur[t].kind = "close" /\ pc[t] \in {"lock", "first"}) =>
              ClosePushed = {}

\* C17: once the close callback has run, a suspend call on the context,
\* which is still referenced, fails with an error: the call ends with the
\* exception, nothing is pushed and the closed handle is not signalled.
C17_SuspendAfterTeardownFailsFast ==
    [][finished =>
          /\ suspended' = suspended
          /\ enq' = enq
          /\ pending' = pending
          /\ \A t \in Threads :
                (pc[t] = "lock" /\ pc'[t] # "lock") => pc'[t] = "thrown"]_vars

CloseDone == {i \in 1..Len(done) : done[i].c.kind = "close"}

\* C19: whatever the wrapper is asked to do, start_delete is called once
\* on a context when its test is destroyed, not more, and uv_close is called
\* at most once on its handle.
C19_TeardownExactlyOnce ==
    /\ destroyFired => CloseCalls >= 1
    /\ CloseCalls <= 1
    /\ Cardinality(CloseDone) <= 1

\* The lifecycle of the context: 0 Constructed, 1 Active (handle
\* registered), 2 TeardownRequested (closure of start_delete pushed),
\* 3 Closed (close callback run), 4 Reclaimed (deallocated).
Lifecycle ==
    IF freed THEN 4
    ELSE IF finished THEN 3
    ELSE IF ClosePushed # {} THEN 2
    ELSE IF handle = "active" THEN 1
    ELSE 0

\* C20: no step takes the lifecycle backwards; a handle on which uv_close
\* has been called is never active again, a closed handle stays closed, and
\* the self reference, once cleared by the close callback, is never set
\* again.
C20_LifecycleForwardOnly ==
    /\ [][Lifecycle' >= Lifecycle]_vars
    /\ [][(handle \in {"closing", "closed"}) => (handle' # "active")]_vars
    /\ [][(handle = "closed") => (handle' = "closed")]_vars
    /\ [][finished => (finished' /\ ~selfref')]_vars
    /\ [](Lifecycle = 1 => (handle = "active" /\ selfref))
    /\ [](Lifecycle = 2 => (handle \in {"active", "closing"} /\ selfref))
    /\ [](Lifecycle >= 3 => (handle = "closed" /\ ~selfref))

\* The context is closed, and run / start has been called again on its
\* wrapper and a callback of that test has suspended a closure on it: the
\* context has stayed closed.
C20_Witness ==
    /\ Lifecycle = 3
    /\ "engine2" \in ext
    /\ suspended # <<>>
    /\ handle = "closed"
    /\ NoThreadInSuspend

\* Thread t is between the lock and the unlock of a suspend call.
InSuspendScope(t) == pc[t] \in {"first", "second", "unlock", "failed"}

\* C21: a thread between the lock and the unlock of suspend owns the mutex,
\* no two threads are there at once, and `suspended` changes only by the
\* push_back of the thread that owns the mutex or by the swap of a resume
\* that can take the mutex; a push appends one whole closure and a swap
\* takes the whole list.
C21_QueueOnlyUnderGuard ==
    /\ [](\A t \in Threads :
             InSuspendScope(t) => (mutexDepth > 0 /\ mutexOwner = t))
    /\ [](\A t, u \in Threads :
             (InSuspendScope(t) /\ InSuspendScope(u)) => t = u)
    /\ [](pcL = "RunOrStart" => (mutexDepth > 0 /\ mutexOwner = Loop))
    /\ [][suspended' # suspended =>
            \/ \E t \in Threads :
                  /\ InSuspendScope(t)
                  /\ mutexDepth > 0
                  /\ mutexOwner = t
                  /\ suspended' = Append(suspended, cur[t])
            \/ /\ pcL = "resume"
               /\ (mutexDepth = 0 \/ mutexOwner = Loop)
               /\ suspended' = <<>>
               /\ functions' = suspended]_vars

\* One engine thread is inside suspend with its closure pushed, the other
\* engine thread waits for the mutex, and so does a resume.
C21_Witness ==
    \E t, u \in Workers :
        /\ t # u
        /\ InSuspendScope(t)
        /\ pc[u] = "lock"
        /\ pcL = "resume"
        /\ suspended # <<>>

\* C22: an engine thread that has called suspend from a callback and waits
\* for the mutex is never stuck: in every state in which one waits, the
\* program can take a step, so that no state has the engine thread waiting
\* for the mutex of a loop thread that waits for the engine thread.
C22_SuspendNeverStuck ==
    (\E t \in Workers : pc[t] = "lock" /\ cur[t].kind = "cb")
        => ENABLED NextSync

\* The test of the wrapper has been started by run / start.
Started == "engine" \in ext \/ destroyFired

\* C23: once run / start has been called on a wrapper, a further call is
\* refused: no step gives a further test a copy of the pointer to the
\* wrapper's context, so the test is not started a second time.
C23_UseAfterStartRefused ==
    [][Started => ext' \subseteq ext]_vars

\* The closure that thread t is suspending has been pushed.
Pushed(t) == \E k \in 1..Len(enq) : enq[k] = cur[t]

\* Thread t makes the uv_async_send step of its suspend call.
Signals(t) ==
    \/ impl = "Context" /\ pc[t] = "second" /\ pc'[t] = "unlock"
    \/ impl = "Runner" /\ pc[t] = "first" /\ pc'[t] = "second"

\* C24 as stated: the wake is signalled by a thread that has pushed its
\* closure and does not hold the mutex any more.
C24_AppendReleaseSignal ==
    [][\A t \in Threads :
          Signals(t) => (Pushed(t) /\ ~(mutexDepth > 0 /\ mutexOwner = t))]_vars

\* C24 as amended: the wake is signalled by the thread that holds the
\* mutex, after its push in suspend<>() and before its push in
\* Runner::SuspendOn; the mutex is released last, with the closure pushed
\* and the wake signalled; and no resume swaps while a thread is between
\* the lock and the unlock, so the resume that serves the wake finds the
\* closure.
C24_SignalUnderGuard ==
    /\ [][\A t \in Threads :
             Signals(t) =>
                 /\ mutexDepth > 0
                 /\ mutexOwner = t
                 /\ mutexDepth' = mutexDepth
                 /\ pending'
                 /\ Pushed(t) <=> impl = "Context"]_vars
    /\ [][(~pending /\ pending') => \E t \in Threads : Signals(t)]_vars
    /\ [][\A t \in Threads :
             (pc[t] = "unlock" /\ pc'[t] = "idle") =>
                 /\ Pushed(t)
                 /\ mutexOwner = t
                 /\ mutexDepth' = mutexDepth - 1]_vars
    /\ [][resumeCount' # resumeCount =>
             \A t \in Threads : ~InSuspendScope(t)]_vars

\* An engine thread inside Runner::SuspendOn has signalled the wake and not
\* pushed its closure yet; the loop has been woken and its resume waits for
\* the mutex.
C24_Witness ==
    \E t \in Workers :
        /\ impl = "Runner"
        /\ pc[t] = "second"
        /\ ~Pushed(t)
        /\ mutexOwner = t
        /\ pcL = "resume"
        /\ ~pending

\* C25: while resume is calling its batch the loop thread owns the mutex
\* only inside a suspend call made by a closure, never for the time a
\* closure spends in a JavaScript callback.
C25_GuardFreeDuringClosure ==
    (pcL = "run" /\ ~InSuspendScope(Loop))
        => ~(mutexDepth > 0 /\ mutexOwner = Loop)

\* C26: on a Runner whose self reference is set no step registers the
\* handle or the callbacks of a test, and the handle is registered only by
\* the step that sets the self reference; the call of RunOrStart that finds
\* the self reference set ends with the exception and leaves the handle,
\* the self reference, the holders of the pointer, the list and the mutex
\* as they were.
C26_AlreadySelfref ==
    /\ [][(impl = "Runner" /\ selfref) =>
              /\ handle' = "active" => handle = "active"
              /\ "engine" \in ext' => "engine" \in ext]_vars
    /\ [][(impl = "Runner" /\ handle # "active" /\ handle' = "active") =>
              (~selfref /\ selfref')]_vars
    /\ [][(pc[Loop] # "thrown" /\ pc'[Loop] = "thrown") =>
              /\ selfref
              /\ UNCHANGED <<handle, selfref, ext, suspended, pending,
                             mutexOwner, mutexDepth, enq, pcL>>]_vars

\* RunOrStart has been called on a started Runner, after its teardown was
\* requested, and has ended with the exception: the self reference is
\* set, the handle still registered and the mutex free.
C26_Witness ==
    /\ impl = "Runner"
    /\ pc[Loop] = "thrown"
    /\ selfref
    /\ destroyFired
    /\ handle = "active"
    /\ mutexDepth = 0

\* The closures that the last swap took and that have not been called.
LeftInBatch ==
    {i \in (Len(done) + 1)..Len(enq) : enqAt[i].at < resumeCount}

\* C27: the step in which a called closure throws ends the resume: the
\* closure counts as called, `suspended` is left as it was, and from then
\* on the loop thread calls nothing; the closures of the batch that follow
\* the throwing one are not in `suspended` and are never called.
C27_FaultPropagates ==
    /\ [][(pcL # "fault" /\ pcL' = "fault") =>
              /\ pcL = "run"
              /\ fnIdx <= Len(functions)
              /\ done' = Append(done, [c |-> functions[fnIdx], by |-> Loop,
                                       inv |-> resumeCount])
              /\ suspended' = suspended
              /\ pending' = pending]_vars
    /\ [][pcL = "fault" =>
              (pcL' = "fault" /\ done' = done /\ resumeCount' = resumeCount)]_vars
    /\ [](pcL = "fault" =>
              \A i \in LeftInBatch : \A k \in 1..Len(suspended) :
                  suspended[k] # enq[i])

\* A closure has thrown while another closure of the same batch had not
\* been called yet, and a closure pushed since is in `suspended`.
C27_Witness ==
    /\ pcL = "fault"
    /\ LeftInBatch # {}
    /\ suspended # <<>>

\* C28: when the handle is registered and no thread is between the lock
\* and the unlock of suspend, a non-empty `suspended` comes with a pending
\* wake or with a resume that has been woken and has not swapped yet.
C28_NoLostWakeup ==
    (/\ handle = "active"
     /\ \A t \in Threads : ~InSuspendScope(t)
     /\ suspended # <<>>)
        => (pending \/ pcL = "resume")

\* C29: when a suspend call ends with the exception of a failed
\* uv_async_send, the closure passed to it is not in `suspended`, and no
\* closure is called that was passed to a call that failed.
C29_FailedSuspendLeavesQueue ==
    /\ [][\A t \in Threads :
             (pc[t] = "failed" /\ pc'[t] = "thrown") =>
                 \A k \in 1..Len(suspended') : suspended'[k] # cur[t]]_vars
    /\ [][\A t \in Threads :
             (pc[t] = "failed" /\ pc'[t] = "thrown") => ~Pushed(t)]_vars

\* C30: the handle is registered only for a context whose test has been
\* started (or is being started by Runner::RunOrStart), so that on_destroy
\* will request its teardown; a wrapper that has not been started has no
\* registered handle.
C30_RegisteredOnlyWhenStarted ==
    handle = "active" => (Started \/ pcL = "RunOrStart")

====
